---- MODULE Spec2Model ----
(***************************************************************************)
(* Model of src/preprocess.py: the aggregation pipeline that groups point  *)
(* events into year windows and spatial cells and coarsens the spatial     *)
(* resolution when the serialized output exceeds a size budget.            *)
(*                                                                         *)
(* Units.  Latitudes, longitudes and bin sizes are integers in hundredths  *)
(* of a degree (24.07 degrees is 2407, bin size 0.1 is 10); centroids are  *)
(* integers in millionths of a degree (6 decimal places).  A parsed date   *)
(* is a triple <<year, month, day>>.  A missing cell of the table (NaN,    *)
(* NaT) is the empty tuple.                                                *)
(***************************************************************************)
EXTENDS Integers, Sequences, FiniteSets, TLC

VARIABLES
  pc,            \* position in main() / in the direct call of a function
  columns,       \* df.columns of the loaded table (a set of names)
  table,         \* rows of the loaded table, before the validity filter
  argv,          \* the command line as given (never assigned after startup)
  args,          \* argparse namespace (grid, h3_res, bin_size, ...)
  H3_AVAILABLE,  \* module flag set by the import at startup
  cols,          \* (lat_col, lon_col, date_col) chosen by detect_columns
  df,            \* rows that survived the validity filter, with parsed_date
  windows,       \* list of {"start", "end"} windows
  features,      \* list returned by the last aggregate_incidents call
  output_data,   \* {"meta": ..., "features": ...}
  json_bytes,    \* the last serialization: what was serialized and its size
  out_file,      \* content of args.out (NoFile until it is written)
  attempts       \* number of aggregate_incidents calls made by main()

vars == << pc, columns, table, argv, args, H3_AVAILABLE, cols, df, windows,
           features, output_data, json_bytes, out_file, attempts >>

-----------------------------------------------------------------------------
(* Bounds of the model *)

MaxRows == 2

MaxWindowLen == 2

MaxCols == 4

-----------------------------------------------------------------------------
(* Values *)

NaN == << >>

NaT == << >>

None == "None"

NoFile == << >>

notna(x) == x # << >>

Min(a, b) == IF a <= b THEN a ELSE b

Max(a, b) == IF a >= b THEN a ELSE b

Abs(a) == IF a >= 0 THEN a ELSE -a

\* Python int(x): truncation toward zero of a / b, for b > 0
TruncDiv(a, b) == IF a >= 0 THEN a \div b ELSE -((-a) \div b)

\* nearest integer to a / b, for b > 0 (no tie arises for the coordinates and
\* group sizes used)
RoundDiv(a, b) ==
  LET q == Abs(a) \div b
      m == IF 2 * (Abs(a) % b) >= b THEN q + 1 ELSE q
  IN  IF a >= 0 THEN m ELSE -m

RECURSIVE SumSeq(_)
SumSeq(s) == IF s = << >> THEN 0 ELSE Head(s) + SumSeq(Tail(s))

SetMin(S) == CHOOSE x \in S : \A y \in S : x <= y

SetMax(S) == CHOOSE x \in S : \A y \in S : x >= y

Range(s) == { s[i] : i \in DOMAIN s }

-----------------------------------------------------------------------------
(* create_time_windows *)

RECURSIVE ctw_loop_overlap(_, _, _, _)
ctw_loop_overlap(current_start, max_year, years_per_window, acc) ==
  IF current_start <= max_year
  THEN LET current_end == Min(current_start + years_per_window - 1, max_year)
       IN  IF current_end = current_start
           THEN ctw_loop_overlap(current_end + 1, max_year, years_per_window,
                    Append(acc, [start |-> current_start, end |-> current_end]))
           ELSE ctw_loop_overlap(current_end, max_year, years_per_window,
                    Append(acc, [start |-> current_start, end |-> current_end]))
  ELSE acc

\* current_end taken one year too late
RECURSIVE ctw_loop_long(_, _, _, _)
ctw_loop_long(current_start, max_year, years_per_window, acc) ==
  IF current_start <= max_year
  THEN LET current_end == Min(current_start + years_per_window, max_year)
       IN  ctw_loop_long(current_end + 1, max_year, years_per_window,
                    Append(acc, [start |-> current_start, end |-> current_end]))
  ELSE acc

\* the loop condition written < instead of <=
RECURSIVE ctw_loop_strict(_, _, _, _)
ctw_loop_strict(current_start, max_year, years_per_window, acc) ==
  IF current_start < max_year
  THEN LET current_end == Min(current_start + years_per_window - 1, max_year)
       IN  ctw_loop_strict(current_end + 1, max_year, years_per_window,
                    Append(acc, [start |-> current_start, end |-> current_end]))
  ELSE acc

\* the while loop of create_time_windows; acc is the list built so far
RECURSIVE ctw_loop(_, _, _, _)
ctw_loop(current_start, max_year, years_per_window, acc) ==
  IF current_start <= max_year
  THEN LET current_end == Min(current_start + years_per_window - 1, max_year)
       IN  ctw_loop(current_end + 1, max_year, years_per_window,
                    Append(acc, [start |-> current_start, end |-> current_end]))
  ELSE acc

create_time_windows(min_year, max_year, years_per_window) ==
  ctw_loop(min_year, max_year, years_per_window, << >>)

-----------------------------------------------------------------------------
(* Spatial cells *)

\* args.h3_res floor and args.bin_size cap of the size adjustment in main()
MinH3Res == 5

MaxBinSize == 20

\* CONUS bounding box of aggregate_incidents, in hundredths of a degree
ConusLatMin == 2400

ConusLatMax == 5000

ConusLonMin == -12500

ConusLonMax == -6600

\* Edge of the stand-in for an H3 cell at a resolution.  h3.latlng_to_cell is
\* a third-party function; the model keeps what the pipeline relies on: the
\* cell is a function of (lat, lon, resolution) alone and a lower resolution
\* gives larger cells.  Resolutions 4..7 are used.
H3CellSize(resolution) == 5 * (2 ^ (7 - resolution))

H3Index(lat, lon, resolution) ==
  << lat \div H3CellSize(resolution), lon \div H3CellSize(resolution) >>

\* n in four decimal digits, for 0 <= n <= 9999
Pad4(n) ==
  (IF n < 10 THEN "000" ELSE IF n < 100 THEN "00" ELSE IF n < 1000 THEN "0" ELSE "")
    \o ToString(n)

\* The stand-in for the index h3.latlng_to_cell returns.  An H3 index is a
\* string of 15 hexadecimal characters that starts with "8" and the
\* resolution; the stand-in keeps that form, since the length of the string
\* is part of the serialized size and groupby sorts by the string.  The two
\* cell numbers are counted from the south pole and from the antimeridian.
get_h3_cell(lat, lon, resolution) ==
  LET ix == H3Index(lat + 9000, lon + 18000, resolution)
  IN  "8" \o ToString(resolution) \o Pad4(ix[1]) \o Pad4(ix[2]) \o "fffff"

\* Values |v| (hundredths) of the model's coordinates for which the double
\* k * 0.05 lies below the decimal tie v, so that "%.1f" rounds it down
\* (66.05 prints as 66.0); 24.05 and 0.05 lie above their ties.
FloatBelowTie == { 6605 }

\* "%.1f" of the double v / 100: the tenths it prints, for v >= 0.
\* A value that is an exact double tie (x.25, x.75) rounds half to even.
RoundTenths(v) ==
  IF v % 10 = 5
  THEN IF v % 100 = 25 \/ v \in FloatBelowTie THEN v \div 10 ELSE v \div 10 + 1
  ELSE RoundDiv(v, 10)

\* f"{x:.1f}" for x = v / 100
Format1f(v) ==
  LET t == RoundTenths(Abs(v))
  IN  (IF v < 0 THEN "-" ELSE "") \o ToString(t \div 10) \o "." \o ToString(t % 10)

RECURSIVE DigitCodes(_)
DigitCodes(n) == IF n < 10 THEN << 48 + n >>
                 ELSE DigitCodes(n \div 10) \o << 48 + (n % 10) >>

\* the character codes of Format1f(v)
Format1fCodes(v) ==
  LET t == RoundTenths(Abs(v))
  IN  (IF v < 0 THEN << 45 >> ELSE << >>) \o DigitCodes(t \div 10)
        \o << 46, 48 + (t % 10) >>

\* the character codes of Pad4(n)
Pad4Codes(n) ==
  << 48 + (n \div 1000), 48 + ((n \div 100) % 10), 48 + ((n \div 10) % 10),
     48 + (n % 10) >>

\* the character codes of get_h3_cell(lat, lon, resolution)
h3_cell_codes(lat, lon, resolution) ==
  LET ix == H3Index(lat + 9000, lon + 18000, resolution)
  IN  << 56, 48 + resolution >> \o Pad4Codes(ix[1]) \o Pad4Codes(ix[2])
        \o << 102, 102, 102, 102, 102 >>

\* int(x * (1 / bin_size)) * bin_size
bin_edge(x, bin_size) == TruncDiv(x, bin_size) * bin_size

get_bin_cell(lat, lon, bin_size) ==
  Format1f(bin_edge(lat, bin_size)) \o "_" \o Format1f(bin_edge(lon, bin_size))

\* the character codes of get_bin_cell(lat, lon, bin_size)
bin_cell_codes(lat, lon, bin_size) ==
  Format1fCodes(bin_edge(lat, bin_size)) \o << 95 >>
    \o Format1fCodes(bin_edge(lon, bin_size))

\* s < t for strings given as character codes (Python's str ordering): at
\* the first position where they differ s has ended or has the smaller code
LexLess(s, t) ==
  \E a \in { s } : \E b \in { t } :
    \E i \in 1..Len(b) :
      /\ \A j \in 1..(i - 1) : j <= Len(a) /\ a[j] = b[j]
      /\ i > Len(a) \/ a[i] < b[i]

-----------------------------------------------------------------------------
(* aggregate_incidents *)

\* The latitude and longitude of a row in units of 1e-7 degree.  A row holds
\* its coordinates in hundredths of a degree (lat, lon); a row with more
\* decimals holds the coordinate cut off after the second decimal in lat and
\* lon, and the digits that follow, with the sign of the coordinate, in
\* lat_frac and lon_frac (40.7127753 is lat 4071, lat_frac 27753;
\* -74.0059728 is lon -7400, lon_frac -59728).
lat_e7(r) == r.lat * 100000 + (IF "lat_frac" \in DOMAIN r THEN r.lat_frac ELSE 0)

lon_e7(r) == r.lon * 100000 + (IF "lon_frac" \in DOMAIN r THEN r.lon_frac ELSE 0)

\* the comparisons written > and <: rows on the edge of the box are dropped
conus_filter_exclusive(d) ==
  SelectSeq(d, LAMBDA r : /\ lat_e7(r) > ConusLatMin * 100000
                          /\ lat_e7(r) < ConusLatMax * 100000
                          /\ lon_e7(r) > ConusLonMin * 100000
                          /\ lon_e7(r) < ConusLonMax * 100000)

\* df[(lat >= 24) & (lat <= 50) & (lon >= -125) & (lon <= -66)]
conus_filter(d) ==
  SelectSeq(d, LAMBDA r : /\ lat_e7(r) >= ConusLatMin * 100000
                          /\ lat_e7(r) <= ConusLatMax * 100000
                          /\ lon_e7(r) >= ConusLonMin * 100000
                          /\ lon_e7(r) <= ConusLonMax * 100000)

\* the upper comparison written < instead of <=
in_window_open(r, window) ==
  /\ notna(r.parsed_date)
  /\ r.parsed_date[1] >= window.start
  /\ r.parsed_date[1] < window.end

\* parsed_date.dt.year; a comparison with the year of NaT is False
in_window(r, window) ==
  /\ notna(r.parsed_date)
  /\ r.parsed_date[1] >= window.start
  /\ r.parsed_date[1] <= window.end

\* df[(year >= start_year) & (year <= end_year)]
window_rows(d, window) == SelectSeq(d, LAMBDA r : in_window(r, window))

\* the value of the cell_id column for a row.  get_bin_cell cuts the
\* coordinate off toward zero at a multiple of the bin size, and the bin sizes
\* are whole hundredths: the digits after the second decimal do not change
\* the bin.  The stand-in for H3 is likewise taken of lat and lon.
cell_id_of(r, grid_type, h3_resolution, bin_size) ==
  IF grid_type = "h3" THEN get_h3_cell(r.lat, r.lon, h3_resolution)
                      ELSE get_bin_cell(r.lat, r.lon, bin_size)

\* the key groupby sorts the cell ids by: the id string itself, as
\* character codes
cell_sort_key(r, grid_type, h3_resolution, bin_size) ==
  IF grid_type = "h3" THEN h3_cell_codes(r.lat, r.lon, h3_resolution)
                      ELSE bin_cell_codes(r.lat, r.lon, bin_size)

\* the rows of window_data whose cell_id is c
cell_group(window_data, c, grid_type, h3_resolution, bin_size) ==
  SelectSeq(window_data,
            LAMBDA r : cell_id_of(r, grid_type, h3_resolution, bin_size) = c)

\* the count taken one too small
make_feature_miscount(window, c, group, grid_type) ==
  LET n    == Len(group)
      lat6 == RoundDiv(SumSeq([i \in DOMAIN group |-> lat_e7(group[i])]), 10 * n)
      lon6 == RoundDiv(SumSeq([i \in DOMAIN group |-> lon_e7(group[i])]), 10 * n)
  IN  IF grid_type = "h3"
      THEN [w |-> << window.start, window.end >>, lat |-> lat6, lon |-> lon6,
            n |-> n - 1, c |-> c]
      ELSE [w |-> << window.start, window.end >>, lat |-> lat6, lon |-> lon6,
            n |-> n - 1, bin_id |-> c]

\* end_year mistyped as start_year in "w"
make_feature_single_year(window, c, group, grid_type) ==
  LET n    == Len(group)
      lat6 == RoundDiv(SumSeq([i \in DOMAIN group |-> lat_e7(group[i])]), 10 * n)
      lon6 == RoundDiv(SumSeq([i \in DOMAIN group |-> lon_e7(group[i])]), 10 * n)
  IN  IF grid_type = "h3"
      THEN [w |-> << window.start, window.start >>, lat |-> lat6, lon |-> lon6,
            n |-> n, c |-> c]
      ELSE [w |-> << window.start, window.start >>, lat |-> lat6, lon |-> lon6,
            n |-> n, bin_id |-> c]

\* the key "c" set whatever the grid type is
make_feature_always_c(window, c, group, grid_type) ==
  LET n    == Len(group)
      lat6 == RoundDiv(SumSeq([i \in DOMAIN group |-> lat_e7(group[i])]), 10 * n)
      lon6 == RoundDiv(SumSeq([i \in DOMAIN group |-> lon_e7(group[i])]), 10 * n)
  IN  [w |-> << window.start, window.end >>, lat |-> lat6, lon |-> lon6,
       n |-> n, c |-> c]

\* the coordinates of the first row of the group in place of the mean
make_feature_first_row(window, c, group, grid_type) ==
  LET n == Len(group)
  IN  IF grid_type = "h3"
      THEN [w |-> << window.start, window.end >>,
            lat |-> RoundDiv(lat_e7(group[1]), 10),
            lon |-> RoundDiv(lon_e7(group[1]), 10), n |-> n, c |-> c]
      ELSE [w |-> << window.start, window.end >>,
            lat |-> RoundDiv(lat_e7(group[1]), 10),
            lon |-> RoundDiv(lon_e7(group[1]), 10), n |-> n, bin_id |-> c]

\* the means cut off after the sixth decimal instead of rounded
make_feature_truncated(window, c, group, grid_type) ==
  LET n    == Len(group)
      lat6 == TruncDiv(SumSeq([i \in DOMAIN group |-> lat_e7(group[i])]), 10 * n)
      lon6 == TruncDiv(SumSeq([i \in DOMAIN group |-> lon_e7(group[i])]), 10 * n)
  IN  IF grid_type = "h3"
      THEN [w |-> << window.start, window.end >>, lat |-> lat6, lon |-> lon6,
            n |-> n, c |-> c]
      ELSE [w |-> << window.start, window.end >>, lat |-> lat6, lon |-> lon6,
            n |-> n, bin_id |-> c]

\* one feature dict: the row of cell_counts for cell c, with the means of
\* the group (in units of 1e-7 degree: the sum over 10 * n is the mean in
\* millionths) rounded to 6 decimals
make_feature(window, c, group, grid_type) ==
  LET n    == Len(group)
      lat6 == RoundDiv(SumSeq([i \in DOMAIN group |-> lat_e7(group[i])]), 10 * n)
      lon6 == RoundDiv(SumSeq([i \in DOMAIN group |-> lon_e7(group[i])]), 10 * n)
  IN  IF grid_type = "h3"
      THEN [w |-> << window.start, window.end >>, lat |-> lat6, lon |-> lon6,
            n |-> n, c |-> c]
      ELSE [w |-> << window.start, window.end >>, lat |-> lat6, lon |-> lon6,
            n |-> n, bin_id |-> c]

\* the cell_id value of a row together with the key it is sorted by
cell_of(r, grid_type, h3_resolution, bin_size) ==
  [id  |-> cell_id_of(r, grid_type, h3_resolution, bin_size),
   key |-> cell_sort_key(r, grid_type, h3_resolution, bin_size)]

\* the distinct cells of window_data (the groups of the groupby)
cells_of(window_data, grid_type, h3_resolution, bin_size) ==
  { cell_of(window_data[i], grid_type, h3_resolution, bin_size) :
      i \in DOMAIN window_data }

\* the position of cell c among cells in groupby's sorted order
cell_rank(c, cells) == 1 + Cardinality({ o \in cells : LexLess(o.key, c.key) })

\* for cell_id, row in cell_counts.iterrows(): the feature of the k-th cell
\* in sorted order
feature_at(k, cells, window_data, window, grid_type, h3_resolution, bin_size) ==
  CHOOSE f \in
    { make_feature(window, c.id,
        cell_group(window_data, c.id, grid_type, h3_resolution, bin_size),
        grid_type) :
      c \in { x \in cells : cell_rank(x, cells) = k } } : TRUE

\* the groupby left out: one feature per row of the window
window_features_per_row(d, window, grid_type, h3_resolution, bin_size) ==
  LET window_data == window_rows(d, window)
  IN  [ k \in DOMAIN window_data |->
          make_feature(window,
            cell_id_of(window_data[k], grid_type, h3_resolution, bin_size),
            << window_data[k] >>, grid_type) ]

\* the body of the loop over windows: the features of one window
window_features(d, window, grid_type, h3_resolution, bin_size) ==
  LET window_data == window_rows(d, window)
      cells == cells_of(window_data, grid_type, h3_resolution, bin_size)
  IN  IF Len(window_data) = 0 THEN << >>
      ELSE [ k \in 1..Cardinality(cells) |->
               feature_at(k, cells, window_data, window, grid_type,
                          h3_resolution, bin_size) ]

\* the loop left after its first pass
agg_windows_first(d, wins, grid_type, h3_resolution, bin_size) ==
  IF wins = << >> THEN << >>
  ELSE window_features(d, wins[1], grid_type, h3_resolution, bin_size)

\* the loop over windows: features.append in window order
agg_windows(d, wins, grid_type, h3_resolution, bin_size) ==
  LET F[i \in 0..Len(wins)] ==
        IF i = 0 THEN << >>
        ELSE F[i - 1] \o window_features(d, wins[i], grid_type, h3_resolution,
                                         bin_size)
  IN  F[Len(wins)]

\* the CONUS filter applied to the caller's frame
caller_frame_filtered(d, conus_only) == IF conus_only THEN conus_filter(d) ELSE d

\* The frame of the caller after aggregate_incidents returned.  Line 123
\* binds the local name df to a new, filtered frame, and lines 141 and 146
\* add the cell_id column to a copy of window_data: the frame that was passed
\* in is left as it was.
caller_frame(d, conus_only) == d

aggregate_incidents(d, wins, grid_type, h3_resolution, bin_size, conus_only) ==
  agg_windows(IF conus_only THEN conus_filter(d) ELSE d,
              wins, grid_type, h3_resolution, bin_size)

-----------------------------------------------------------------------------
(* detect_columns, parse_date_column *)

lat_candidates == << "lat", "latitude", "Latitude", "LAT", "y" >>

lon_candidates == << "lon", "lng", "longitude", "Longitude", "LON", "x" >>

date_candidates == << "date", "incident_date", "Date", "DATE", "year" >>

\* the loop without the break: the last alias present wins
RECURSIVE first_present_no_break(_, _)
first_present_no_break(candidates, cs) ==
  IF candidates = << >> THEN None
  ELSE IF first_present_no_break(Tail(candidates), cs) # None
       THEN first_present_no_break(Tail(candidates), cs)
  ELSE IF Head(candidates) \in cs THEN Head(candidates)
  ELSE None

\* for col in candidates: if col in df.columns: ... break
RECURSIVE first_present(_, _)
first_present(candidates, cs) ==
  IF candidates = << >> THEN None
  ELSE IF Head(candidates) \in cs THEN Head(candidates)
  ELSE first_present(Tail(candidates), cs)

\* the test of date_col (lines 64-65) left out
detect_columns_unchecked_date(cs) ==
  LET lat_col  == first_present(lat_candidates, cs)
      lon_col  == first_present(lon_candidates, cs)
      date_col == first_present(date_candidates, cs)
  IN  IF lat_col = None
      THEN [raised |-> TRUE, field |-> "latitude", expected |-> lat_candidates]
      ELSE IF lon_col = None
      THEN [raised |-> TRUE, field |-> "longitude", expected |-> lon_candidates]
      ELSE [raised |-> FALSE, lat_col |-> lat_col, lon_col |-> lon_col,
            date_col |-> date_col]

\* the returned triple, or the ValueError that is raised
detect_columns(cs) ==
  LET lat_col  == first_present(lat_candidates, cs)
      lon_col  == first_present(lon_candidates, cs)
      date_col == first_present(date_candidates, cs)
  IN  IF lat_col = None
      THEN [raised |-> TRUE, field |-> "latitude", expected |-> lat_candidates]
      ELSE IF lon_col = None
      THEN [raised |-> TRUE, field |-> "longitude", expected |-> lon_candidates]
      ELSE IF date_col = None
      THEN [raised |-> TRUE, field |-> "date", expected |-> date_candidates]
      ELSE [raised |-> FALSE, lat_col |-> lat_col, lon_col |-> lon_col,
            date_col |-> date_col]

\* pd.to_datetime(str(y) + '-07-01', errors='coerce') gives a date for the
\* years whose July 1 a datetime64[ns] timestamp can hold (its range runs from
\* 1677-09-21 to 2262-04-11) and NaT for any other year
year_parses(y) == y >= 1678 /\ y <= 2261

\* One cell of the date column.  A cell of a 'year' column is <<y>>; a cell
\* of a date column is <<y, m, d>> when the text is a date and << >> when
\* pd.to_datetime(errors='coerce') cannot parse it.
parse_date_cell(cell, date_col) ==
  IF date_col = "year"
  THEN IF Len(cell) = 1 /\ year_parses(cell[1]) THEN << cell[1], 7, 1 >> ELSE NaT
  ELSE IF Len(cell) = 3 THEN cell ELSE NaT

\* the parsed_date column, row for row
parse_date_column(t, date_col) ==
  [ i \in DOMAIN t |-> parse_date_cell(t[i].date, date_col) ]

\* df = df[valid_dates & valid_coords], with the parsed_date column added
valid_rows(t, date_col) ==
  LET parsed == parse_date_column(t, date_col)
      keep   == { i \in DOMAIN t :
                    notna(parsed[i]) /\ notna(t[i].lat) /\ notna(t[i].lon) }
      F[i \in 0..Len(t)] ==
        IF i = 0 THEN << >>
        ELSE IF i \in keep
             THEN Append(F[i - 1], [lat |-> t[i].lat[1], lon |-> t[i].lon[1],
                                    parsed_date |-> parsed[i]])
             ELSE F[i - 1]
  IN  F[Len(t)]

\* df['parsed_date'].dt.year.min() / .max(): NaN for an empty frame
year_min(d) == IF d = << >> THEN NaN
               ELSE << SetMin({ d[i].parsed_date[1] : i \in DOMAIN d }) >>

year_max(d) == IF d = << >> THEN NaN
               ELSE << SetMax({ d[i].parsed_date[1] : i \in DOMAIN d }) >>

\* the number of characters of str(n)
IntLen(n) == (IF n < 0 THEN 1 ELSE 0) + Len(DigitCodes(Abs(n)))

\* the number of digits orjson writes after the decimal point for the
\* fraction f / 10^d: the d digits without their trailing zeros, one digit
\* "0" for a whole number
RECURSIVE FractionLen(_, _)
FractionLen(f, d) ==
  IF f = 0 THEN 1
  ELSE IF f % 10 = 0 THEN FractionLen(f \div 10, d - 1)
  ELSE d

\* the number of characters orjson writes for the float v / 10^d (the
\* shortest decimal that reads back as the same double: 24.0, -66.035, 0.05).
\* Values below 0.0001, which are written with an exponent, do not arise
\* from the coordinates of the model.
FloatLen(v, d) ==
  (IF v < 0 THEN 1 ELSE 0) + IntLen(Abs(v) \div (10 ^ d)) + 1
    + FractionLen(Abs(v) % (10 ^ d), d)

\* {"start":1995,"end":1997}
WindowBytes(w) == 9 + IntLen(w.start) + 7 + IntLen(w.end) + 1

\* {"w":[1995,1997],"lat":24.035,"lon":-66.035,"n":2,"bin_id":"24.0_-66.0"}
\* and the same with "c":"..." for the h3 grid
FeatureBytes(f) ==
  6 + IntLen(f.w[1]) + 1 + IntLen(f.w[2]) + 8 + FloatLen(f.lat, 6)
    + 7 + FloatLen(f.lon, 6) + 5 + IntLen(f.n)
    + (IF "c" \in DOMAIN f THEN 6 + Len(f.c) + 2 ELSE 11 + Len(f.bin_id) + 2)

\* the bytes of a JSON list of n items of total length sum: commas between
\* the items
ListBytes(sum, n) == 2 + sum + (IF n > 1 THEN n - 1 ELSE 0)

\* "resolution": an int for the h3 grid, a float (hundredths in the model)
\* for the bin grid
ResolutionBytes(meta) ==
  IF meta.grid = "h3" THEN IntLen(meta.resolution)
                      ELSE FloatLen(meta.resolution, 2)

\* len(orjson.dumps(output_data)) in bytes: the compact form
\* {"meta":{"grid":"bin","resolution":0.1,"windows":[...]},"features":[...]}
SerializedSize(data) ==
  8 + 9 + Len(data.meta.grid) + 15 + ResolutionBytes(data.meta) + 11
    + ListBytes(SumSeq([ i \in DOMAIN data.meta.windows |->
                           WindowBytes(data.meta.windows[i]) ]),
                Len(data.meta.windows))
    + 13
    + ListBytes(SumSeq([ k \in DOMAIN data.features |->
                           FeatureBytes(data.features[k]) ]),
                Len(data.features))
    + 1

-----------------------------------------------------------------------------
(* Inputs of the model *)

\* two points of one 0.1-degree bin inside CONUS (the first on its corner)
\* and a point outside CONUS with a negative latitude
Points == << [lat |-> 2400, lon |-> -6600],
             [lat |-> 2407, lon |-> -6607],
             [lat |-> -7,   lon |-> 4] >>

Years == << 1995, 1997 >>

\* rows of a table whose date column is the bare 'year': every point in
\* every year, and a row without latitude
YearRows ==
  [ i \in 1..(Len(Points) * Len(Years)) |->
      [lat  |-> << Points[((i - 1) \div Len(Years)) + 1].lat >>,
       lon  |-> << Points[((i - 1) \div Len(Years)) + 1].lon >>,
       date |-> << Years[((i - 1) % Len(Years)) + 1] >>] ]
  \o << [lat |-> NaN, lon |-> << -6600 >>, date |-> << 1995 >>] >>

\* rows of a table with a full date column: the same, and a row whose date
\* text cannot be parsed
DateRows ==
  [ i \in 1..(Len(Points) * Len(Years)) |->
      [lat  |-> << Points[((i - 1) \div Len(Years)) + 1].lat >>,
       lon  |-> << Points[((i - 1) \div Len(Years)) + 1].lon >>,
       date |-> << Years[((i - 1) % Len(Years)) + 1], 3, 15 >>] ]
  \o << [lat |-> NaN, lon |-> << -6600 >>, date |-> << 1995, 3, 15 >>],
        [lat |-> << 2400 >>, lon |-> << -6600 >>, date |-> << >>] >>

\* the tables of at most MaxRows rows over a row list, one per multiset of
\* rows (no operation of the pipeline reads the position of a row)
Tables(rows) ==
  UNION { { [ i \in 1..n |-> rows[ix[i]] ] :
              ix \in { s \in [1..n -> 1..Len(rows)] :
                         \A i \in 1..(n - 1) : s[i] <= s[i + 1] } } :
          n \in 0..MaxRows }

Schemas ==
  { [columns |-> { "Latitude", "Longitude", "year", "state" }, rows |-> YearRows],
    [columns |-> { "lat", "lon", "date", "year" },             rows |-> DateRows] }

\* column sets that lack a required field
BadColumns == { { "lat", "lon", "state" }, { "Latitude", "date" }, { "lng", "year" } }

H3Resolutions == 4..7

BinSizes == { 5, 10, 15, 20, 40 }

\* the configured resolution: one of --h3-res, --bin-size varies from its default
ResolutionArgs ==
  { [grid |-> "h3", h3_res |-> r, bin_size |-> 10] : r \in H3Resolutions }
    \cup { [grid |-> "bin", h3_res |-> 6, bin_size |-> b] : b \in BinSizes }

\* the default of --max-size-mb, 50.0 MB, in bytes
DefaultMaxSize == 52428800

\* artifacts of the bin grid at bin size 0.1 whose size is used as a budget:
\* of a frame without rows (67 bytes), of a frame with one window whose rows
\* are all dropped by the CONUS filter (92 bytes), and of a frame whose two
\* rows fall into one window and one bin (164 bytes)
BudgetArtifacts ==
  { [meta |-> [grid |-> "bin", resolution |-> 10, windows |-> << >>],
     features |-> << >>],
    [meta |-> [grid |-> "bin", resolution |-> 10,
               windows |-> << [start |-> 1995, end |-> 1995] >>],
     features |-> << >>],
    [meta |-> [grid |-> "bin", resolution |-> 10,
               windows |-> << [start |-> 1995, end |-> 1995] >>],
     features |-> << [w |-> << 1995, 1995 >>, lat |-> 24035000,
                      lon |-> -66035000, n |-> 2, bin_id |-> "24.0_-66.0"] >>] }

\* values of --max-size-mb, in bytes (args.max_size_mb * 1024 * 1024): a
\* budget nothing fits, budgets that an artifact at a coarser resolution just
\* fits while the one at the finer resolution does not, and the default
Budgets ==
  { 0, DefaultMaxSize } \cup { SerializedSize(a) : a \in BudgetArtifacts }

ArgSets ==
  { [grid |-> ra.grid, h3_res |-> ra.h3_res, bin_size |-> ra.bin_size,
     years_per_window |-> k, conus_only |-> c, max_size |-> m] :
      ra \in ResolutionArgs, k \in 1..MaxWindowLen, c \in BOOLEAN,
      m \in Budgets }

DefaultArgs == [grid |-> "h3", h3_res |-> 6, bin_size |-> 10,
                years_per_window |-> 3, conus_only |-> FALSE,
                max_size |-> DefaultMaxSize]

Unset == << >>

\* outcomes of 'import h3' at startup; the flag is read only at line 212,
\* and only when --grid h3 is asked for
H3Imports(a) == IF a.grid = "h3" THEN BOOLEAN ELSE { TRUE }

-----------------------------------------------------------------------------
(* main() *)

Init ==
  /\ pc = "detect"
  /\ \/ \E sc \in Schemas :
          /\ columns = sc.columns
          /\ table \in Tables(sc.rows)
          /\ args \in ArgSets
          /\ H3_AVAILABLE \in H3Imports(args)
     \/ /\ columns \in BadColumns
        /\ table = << >>
        /\ args = DefaultArgs
        /\ H3_AVAILABLE = TRUE
  /\ argv = args
  /\ cols = Unset
  /\ df = Unset
  /\ windows = Unset
  /\ features = Unset
  /\ output_data = Unset
  /\ json_bytes = Unset
  /\ out_file = NoFile
  /\ attempts = 0

\* lines 197-199: detect_columns(df); a ValueError ends the run
DetectColumns ==
  /\ pc = "detect"
  /\ LET r == detect_columns(columns)
     IN  IF r.raised
         THEN /\ pc' = "error"
              /\ cols' = cols
         ELSE /\ pc' = "filter"
              /\ cols' = r
  /\ UNCHANGED << columns, table, argv, args, H3_AVAILABLE, df, windows, features,
                  output_data, json_bytes, out_file, attempts >>

\* lines 201-209: parse the dates, keep rows with a date and coordinates
FilterRows ==
  /\ pc = "filter"
  /\ df' = valid_rows(table, cols.date_col)
  /\ pc' = "grid"
  /\ UNCHANGED << columns, table, argv, args, H3_AVAILABLE, cols, windows, features,
                  output_data, json_bytes, out_file, attempts >>

\* the test of lines 212-214 left out: the requested grid is kept
SelectGridKeepsH3 ==
  /\ pc = "grid"
  /\ args' = args
  /\ pc' = "windows"
  /\ UNCHANGED << columns, table, argv, H3_AVAILABLE, cols, df, windows, features,
                  output_data, json_bytes, out_file, attempts >>

\* lines 211-214: switch to the bin grid when h3 could not be imported
SelectGrid ==
  /\ pc = "grid"
  /\ args' = IF args.grid = "h3" /\ ~H3_AVAILABLE
             THEN [args EXCEPT !.grid = "bin"] ELSE args
  /\ pc' = "windows"
  /\ UNCHANGED << columns, table, argv, H3_AVAILABLE, cols, df, windows, features,
                  output_data, json_bytes, out_file, attempts >>

\* lines 216-220: with an empty frame min_year and max_year are NaN,
\* NaN <= NaN is False and the loop of create_time_windows returns []
CreateWindows ==
  /\ pc = "windows"
  /\ LET min_year == year_min(df)
         max_year == year_max(df)
     IN  windows' = IF notna(min_year) /\ notna(max_year)
                    THEN create_time_windows(min_year[1], max_year[1],
                                             args.years_per_window)
                    ELSE << >>
  /\ pc' = "aggregating"
  /\ UNCHANGED << columns, table, argv, args, H3_AVAILABLE, cols, df, features,
                  output_data, json_bytes, out_file, attempts >>

\* "resolution": args.h3_res if args.grid == "h3" else args.bin_size
active_resolution(a) == IF a.grid = "h3" THEN a.h3_res ELSE a.bin_size

\* lines 222-248: the first aggregation and the output_data dict
Aggregate ==
  /\ pc = "aggregating"
  /\ features' = aggregate_incidents(df, windows, args.grid, args.h3_res,
                                     args.bin_size, args.conus_only)
  /\ output_data' = [meta |-> [grid |-> args.grid,
                               resolution |-> active_resolution(args),
                               windows |-> windows],
                     features |-> features']
  /\ df' = caller_frame(df, args.conus_only)
  /\ attempts' = attempts + 1
  /\ pc' = "measuring"
  /\ UNCHANGED << columns, table, argv, args, H3_AVAILABLE, cols, windows,
                  json_bytes, out_file >>

\* the floor and cap tests left out of lines 256 and 266
can_coarsen_always(a) == a.grid = "h3" \/ a.grid = "bin"

\* the floor and cap tests written >= and <=
can_coarsen_at_floor(a) ==
  \/ a.grid = "h3" /\ a.h3_res >= MinH3Res
  \/ a.grid = "bin" /\ a.bin_size <= MaxBinSize

\* the conditions of lines 256 and 266
can_coarsen(a) ==
  \/ a.grid = "h3" /\ a.h3_res > MinH3Res
  \/ a.grid = "bin" /\ a.bin_size < MaxBinSize

\* lines 250-256, 266: serialize, compare with the budget, choose the branch
Measure ==
  /\ pc = "measuring"
  /\ json_bytes' = [data |-> output_data, size |-> SerializedSize(output_data)]
  /\ pc' = IF json_bytes'.size > args.max_size /\ can_coarsen(args)
           THEN "coarsening" ELSE "writing"
  /\ UNCHANGED << columns, table, argv, args, H3_AVAILABLE, cols, df, windows,
                  features, output_data, out_file, attempts >>

\* the bin size doubled without the cap
coarsened_uncapped(a) ==
  IF a.grid = "h3"
  THEN [a EXCEPT !.h3_res = Max(MinH3Res, a.h3_res - 1)]
  ELSE [a EXCEPT !.bin_size = a.bin_size * 2]

\* lines 258, 268: args.h3_res = max(5, h3_res - 1) / args.bin_size = min(0.2, bin_size * 2)
coarsened(a) ==
  IF a.grid = "h3"
  THEN [a EXCEPT !.h3_res = Max(MinH3Res, a.h3_res - 1)]
  ELSE [a EXCEPT !.bin_size = Min(MaxBinSize, a.bin_size * 2)]

Coarsen ==
  /\ pc = "coarsening"
  /\ args' = coarsened(args)
  /\ pc' = "reaggregating"
  /\ UNCHANGED << columns, table, argv, H3_AVAILABLE, cols, df, windows, features,
                  output_data, json_bytes, out_file, attempts >>

\* line 262 / 272 left out: meta keeps the resolution of the first attempt
retry_output_stale_resolution(data, a, feats) ==
  [data EXCEPT !.features = feats]

\* the output_data of lines 261-262 / 271-272 after the second aggregation
retry_output(data, a, feats) ==
  [data EXCEPT !.features = feats, !.meta.resolution = active_resolution(a)]

\* lines 259-262 / 269-272: aggregate again and replace features and resolution
Reaggregate ==
  /\ pc = "reaggregating"
  /\ features' = aggregate_incidents(df, windows, args.grid, args.h3_res,
                                     args.bin_size, args.conus_only)
  /\ output_data' = retry_output(output_data, args, features')
  /\ df' = caller_frame(df, args.conus_only)
  /\ attempts' = attempts + 1
  /\ pc' = "remeasuring"
  /\ UNCHANGED << columns, table, argv, args, H3_AVAILABLE, cols, windows,
                  json_bytes, out_file >>

\* lines 263-264 / 273-274: serialize again; the size is not compared again
Remeasure ==
  /\ pc = "remeasuring"
  /\ json_bytes' = [data |-> output_data, size |-> SerializedSize(output_data)]
  /\ pc' = "writing"
  /\ UNCHANGED << columns, table, argv, args, H3_AVAILABLE, cols, df, windows,
                  features, output_data, out_file, attempts >>

\* lines 277-279: write json_bytes to args.out
Write ==
  /\ pc = "writing"
  /\ out_file' = json_bytes.data
  /\ pc' = "done"
  /\ UNCHANGED << columns, table, argv, args, H3_AVAILABLE, cols, df, windows,
                  features, output_data, json_bytes, attempts >>

Next ==
  \/ DetectColumns
  \/ FilterRows
  \/ SelectGrid
  \/ CreateWindows
  \/ Aggregate
  \/ Measure
  \/ Coarsen
  \/ Reaggregate
  \/ Remeasure
  \/ Write

Spec == Init /\ [][Next]_vars

\* Runs of main() for the properties of its control flow, which are checked
\* with fairness: the tables hold rows of one year (so that there is a single
\* window whatever --years-per-window is) and the CONUS filter is off.
RetryRows ==
  [ i \in 1..Len(Points) |->
      [lat |-> << Points[i].lat >>, lon |-> << Points[i].lon >>,
       date |-> << Years[1] >>] ]

InitRetry ==
  /\ pc = "detect"
  /\ columns = { "Latitude", "Longitude", "year", "state" }
  /\ table \in Tables(RetryRows)
  /\ args \in { a \in ArgSets : ~a.conus_only /\ a.years_per_window = 1 }
  /\ H3_AVAILABLE \in H3Imports(args)
  /\ argv = args
  /\ cols = Unset
  /\ df = Unset
  /\ windows = Unset
  /\ features = Unset
  /\ output_data = Unset
  /\ json_bytes = Unset
  /\ out_file = NoFile
  /\ attempts = 0

\* main() is sequential code: a step that can be taken is taken
FairSpec == InitRetry /\ [][Next]_vars /\ WF_vars(Next)

\* Runs of main() with the bin grid on tables whose rows lie close together
\* (two of them share a 0.05 bin id but not a 0.1 bin id) or carry a latitude
\* outside [-90, 90]; all rows are of one year and the CONUS filter is off.
EdgeRows ==
  << [lat |-> << 2407 >>, lon |-> << -6607 >>, date |-> << Years[1] >>],
     [lat |-> << 2412 >>, lon |-> << -6603 >>, date |-> << Years[1] >>],
     [lat |-> << 9500 >>, lon |-> << -6600 >>, date |-> << Years[1] >>] >>

InitEdge ==
  /\ pc = "detect"
  /\ columns = { "Latitude", "Longitude", "year", "state" }
  /\ table \in Tables(EdgeRows)
  /\ args \in { a \in ArgSets : /\ a.grid = "bin" /\ ~a.conus_only
                                /\ a.years_per_window = 1 }
  /\ H3_AVAILABLE \in H3Imports(args)
  /\ argv = args
  /\ cols = Unset
  /\ df = Unset
  /\ windows = Unset
  /\ features = Unset
  /\ output_data = Unset
  /\ json_bytes = Unset
  /\ out_file = NoFile
  /\ attempts = 0

SpecEdge == InitEdge /\ [][Next]_vars

-----------------------------------------------------------------------------
(* Direct calls of create_time_windows, as the tests make them *)

WindowYears == 1994..1999

InitWindows ==
  /\ pc = "call_create_time_windows"
  /\ args \in { [min_year |-> a, max_year |-> b, years_per_window |-> k] :
                  a \in WindowYears, b \in WindowYears, k \in 1..(MaxWindowLen + 1) }
  /\ argv = args
  /\ columns = {}
  /\ table = << >>
  /\ H3_AVAILABLE = TRUE
  /\ cols = Unset
  /\ df = Unset
  /\ windows = Unset
  /\ features = Unset
  /\ output_data = Unset
  /\ json_bytes = Unset
  /\ out_file = NoFile
  /\ attempts = 0

CallCreateTimeWindows ==
  /\ pc = "call_create_time_windows"
  /\ windows' = create_time_windows(args.min_year, args.max_year,
                                    args.years_per_window)
  /\ pc' = "returned_create_time_windows"
  /\ UNCHANGED << columns, table, argv, args, H3_AVAILABLE, cols, df, features,
                  output_data, json_bytes, out_file, attempts >>

SpecWindows == InitWindows /\ [][CallCreateTimeWindows]_vars

\* a call that was made runs to its return
FairSpecWindows ==
  InitWindows /\ [][CallCreateTimeWindows]_vars /\ WF_vars(CallCreateTimeWindows)

-----------------------------------------------------------------------------
(* Direct calls of detect_columns, as the tests make them *)

\* column names a table may carry: two aliases of each field and one other
ColumnNames == { "lat", "Latitude", "lon", "Longitude", "date", "year", "state" }

\* df.columns in the order of the header: up to MaxCols distinct names
Headers ==
  UNION { { h \in [1..n -> ColumnNames] :
              \A i \in 1..n : \A j \in 1..n : i # j => h[i] # h[j] } :
          n \in 0..MaxCols }

InitDetect ==
  /\ pc = "call_detect_columns"
  /\ columns \in Headers
  /\ table = << >>
  /\ args = Unset
  /\ argv = args
  /\ H3_AVAILABLE = TRUE
  /\ cols = Unset
  /\ df = Unset
  /\ windows = Unset
  /\ features = Unset
  /\ output_data = Unset
  /\ json_bytes = Unset
  /\ out_file = NoFile
  /\ attempts = 0

\* 'col in df.columns' reads the names, not their positions
CallDetectColumns ==
  /\ pc = "call_detect_columns"
  /\ cols' = detect_columns(Range(columns))
  /\ pc' = "returned_detect_columns"
  /\ UNCHANGED << columns, table, argv, args, H3_AVAILABLE, df, windows, features,
                  output_data, json_bytes, out_file, attempts >>

SpecDetect == InitDetect /\ [][CallDetectColumns]_vars

-----------------------------------------------------------------------------
(* Direct calls of parse_date_column on a 'year' column, as the tests make them *)

\* values of the year column: years of the data and a five-digit year
YearValues == { 1995, 1997, 2002, 12345 }

\* frames of up to MaxRows + 1 rows with an integer year column
YearFrames ==
  UNION { [1..n -> { [date |-> << y >>] : y \in YearValues }] :
          n \in 0..(MaxRows + 1) }

InitParse ==
  /\ pc = "call_parse_date_column"
  /\ table \in YearFrames
  /\ args = [date_col |-> "year"]
  /\ argv = args
  /\ columns = { "year" }
  /\ H3_AVAILABLE = TRUE
  /\ cols = Unset
  /\ df = Unset
  /\ windows = Unset
  /\ features = Unset
  /\ output_data = Unset
  /\ json_bytes = Unset
  /\ out_file = NoFile
  /\ attempts = 0

\* df holds the returned series
CallParseDateColumn ==
  /\ pc = "call_parse_date_column"
  /\ df' = parse_date_column(table, args.date_col)
  /\ pc' = "returned_parse_date_column"
  /\ UNCHANGED << columns, table, argv, args, H3_AVAILABLE, cols, windows, features,
                  output_data, json_bytes, out_file, attempts >>

SpecParse == InitParse /\ [][CallParseDateColumn]_vars

-----------------------------------------------------------------------------
(* Direct calls of get_bin_cell on two points *)

\* points on both sides of the equator and of the prime meridian, and points
\* a few hundredths of a degree apart
BinPoints ==
  { [lat |-> a, lon |-> o] : a \in { -7, 4, 7, 2407, 2412 },
                             o \in { -6607, -6603, -7, 4 } }

InitBin ==
  /\ pc = "call_get_bin_cell"
  /\ df \in [1..2 -> BinPoints]
  /\ args \in { [bin_size |-> b] : b \in BinSizes }
  /\ argv = args
  /\ columns = {}
  /\ table = << >>
  /\ H3_AVAILABLE = TRUE
  /\ cols = Unset
  /\ windows = Unset
  /\ features = Unset
  /\ output_data = Unset
  /\ json_bytes = Unset
  /\ out_file = NoFile
  /\ attempts = 0

\* features holds the bin_id returned for each of the two points
CallGetBinCell ==
  /\ pc = "call_get_bin_cell"
  /\ features' = [ i \in DOMAIN df |->
                     [bin_id |-> get_bin_cell(df[i].lat, df[i].lon, args.bin_size)] ]
  /\ pc' = "returned_get_bin_cell"
  /\ UNCHANGED << columns, table, argv, args, H3_AVAILABLE, cols, df, windows,
                  output_data, json_bytes, out_file, attempts >>

SpecBin == InitBin /\ [][CallGetBinCell]_vars

-----------------------------------------------------------------------------
(* Direct calls of aggregate_incidents, as the tests make them *)

\* frames with a parsed_date column: every point in every year, and a row
\* whose parsed date is NaT
ParsedRows ==
  [ i \in 1..(Len(Points) * Len(Years)) |->
      [lat  |-> Points[((i - 1) \div Len(Years)) + 1].lat,
       lon  |-> Points[((i - 1) \div Len(Years)) + 1].lon,
       parsed_date |-> << Years[((i - 1) % Len(Years)) + 1], 7, 1 >>] ]
  \o << [lat |-> 2400, lon |-> -6600, parsed_date |-> NaT] >>

\* window lists as create_time_windows builds them; they need not cover the
\* years of the frame (test_conus_filtering passes 1995..1995)
CallWindows ==
  { create_time_windows(a, b, k) :
      a \in 1995..1997, b \in 1995..1997, k \in 1..MaxWindowLen }

InitAggregate ==
  /\ pc = "call_aggregate_incidents"
  /\ df \in Tables(ParsedRows)
  /\ windows \in CallWindows
  /\ args \in { [grid_type |-> ra.grid, h3_resolution |-> ra.h3_res,
                 bin_size |-> ra.bin_size, conus_only |-> c] :
                  ra \in ResolutionArgs, c \in BOOLEAN }
  /\ argv = args
  /\ columns = {}
  /\ table = << >>
  /\ H3_AVAILABLE = TRUE
  /\ cols = Unset
  /\ features = Unset
  /\ output_data = Unset
  /\ json_bytes = Unset
  /\ out_file = NoFile
  /\ attempts = 0

CallAggregateIncidents ==
  /\ pc = "call_aggregate_incidents"
  /\ features' = aggregate_incidents(df, windows, args.grid_type,
                                     args.h3_resolution, args.bin_size,
                                     args.conus_only)
  /\ df' = caller_frame(df, args.conus_only)
  /\ pc' = "returned_aggregate_incidents"
  /\ UNCHANGED << columns, table, argv, args, H3_AVAILABLE, cols, windows,
                  output_data, json_bytes, out_file, attempts >>

SpecAggregate == InitAggregate /\ [][CallAggregateIncidents]_vars

-----------------------------------------------------------------------------
(* Direct calls of aggregate_incidents on coordinates with seven decimals *)

\* Points of one 0.1-degree bin: two with seven decimals (42.3600823,
\* -71.0588801 and 42.3600828, -71.0588807) and one in whole hundredths
\* (42.36, -71.06); and a point just north of the CONUS box
\* (50.0000001, -70.00).
PrecisePoints ==
  << [lat |-> 4236, lat_frac |-> 823, lon |-> -7105, lon_frac |-> -88801],
     [lat |-> 4236, lat_frac |-> 828, lon |-> -7105, lon_frac |-> -88807],
     [lat |-> 4236, lat_frac |-> 0,   lon |-> -7106, lon_frac |-> 0],
     [lat |-> 5000, lat_frac |-> 1,   lon |-> -7000, lon_frac |-> 0] >>

\* frames with a parsed_date column: every precise point in every year
PreciseRows ==
  [ i \in 1..(Len(PrecisePoints) * Len(Years)) |->
      [lat  |-> PrecisePoints[((i - 1) \div Len(Years)) + 1].lat,
       lon  |-> PrecisePoints[((i - 1) \div Len(Years)) + 1].lon,
       lat_frac |-> PrecisePoints[((i - 1) \div Len(Years)) + 1].lat_frac,
       lon_frac |-> PrecisePoints[((i - 1) \div Len(Years)) + 1].lon_frac,
       parsed_date |-> << Years[((i - 1) % Len(Years)) + 1], 7, 1 >>] ]

InitCentroid ==
  /\ pc = "call_aggregate_incidents"
  /\ df \in Tables(PreciseRows)
  /\ windows \in CallWindows
  /\ args \in { [grid_type |-> "bin", h3_resolution |-> 6, bin_size |-> b,
                 conus_only |-> c] : b \in { 10, 20 }, c \in BOOLEAN }
  /\ argv = args
  /\ columns = {}
  /\ table = << >>
  /\ H3_AVAILABLE = TRUE
  /\ cols = Unset
  /\ features = Unset
  /\ output_data = Unset
  /\ json_bytes = Unset
  /\ out_file = NoFile
  /\ attempts = 0

SpecCentroid == InitCentroid /\ [][CallAggregateIncidents]_vars

-----------------------------------------------------------------------------
(* Calls of aggregate_incidents on parts of its input *)

\* One call on the whole input, and calls on its parts whose results are
\* concatenated: the windows cut in two after windows_split entries, and the
\* rows cut in two shards after rows_split rows.
InitShards ==
  /\ pc = "call_aggregate_incidents_on_parts"
  /\ df \in Tables(ParsedRows)
  /\ windows \in CallWindows
  /\ args \in { [grid_type |-> ra.grid, h3_resolution |-> ra.h3_res,
                 bin_size |-> ra.bin_size, conus_only |-> FALSE,
                 rows_split |-> rs, windows_split |-> ws] :
                  ra \in { x \in ResolutionArgs : x.h3_res = 6 /\ x.bin_size = 10 },
                  rs \in 0..Len(df), ws \in 0..Len(windows) }
  /\ argv = args
  /\ columns = {}
  /\ table = << >>
  /\ H3_AVAILABLE = TRUE
  /\ cols = Unset
  /\ features = Unset
  /\ output_data = Unset
  /\ json_bytes = Unset
  /\ out_file = NoFile
  /\ attempts = 0

\* features: the result of the one call; output_data: the concatenated
\* results of the calls on the two window lists and on the two row shards
CallAggregateOnParts ==
  /\ pc = "call_aggregate_incidents_on_parts"
  /\ features' = aggregate_incidents(df, windows, args.grid_type,
                                     args.h3_resolution, args.bin_size,
                                     args.conus_only)
  /\ output_data' =
       [by_windows |->
          aggregate_incidents(df, SubSeq(windows, 1, args.windows_split),
                              args.grid_type, args.h3_resolution, args.bin_size,
                              args.conus_only)
          \o aggregate_incidents(df, SubSeq(windows, args.windows_split + 1,
                                            Len(windows)),
                                 args.grid_type, args.h3_resolution,
                                 args.bin_size, args.conus_only),
        by_rows |->
          aggregate_incidents(SubSeq(df, 1, args.rows_split), windows,
                              args.grid_type, args.h3_resolution, args.bin_size,
                              args.conus_only)
          \o aggregate_incidents(SubSeq(df, args.rows_split + 1, Len(df)), windows,
                                 args.grid_type, args.h3_resolution,
                                 args.bin_size, args.conus_only)]
  /\ pc' = "returned_aggregate_incidents_on_parts"
  /\ UNCHANGED << columns, table, argv, args, H3_AVAILABLE, cols, df, windows,
                  json_bytes, out_file, attempts >>

SpecShards == InitShards /\ [][CallAggregateOnParts]_vars

-----------------------------------------------------------------------------
(* Calls of aggregate_incidents on a frame and on the same rows reordered *)

\* the orders of n rows
RowOrders(n) ==
  { o \in [1..n -> 1..n] : \A i, j \in 1..n : i # j => o[i] # o[j] }

\* the rows of d taken in the order o (df.iloc[o])
reordered(d, o) == [ i \in DOMAIN o |-> d[o[i]] ]

InitOrder ==
  /\ pc = "call_aggregate_incidents_reordered"
  /\ df \in Tables(ParsedRows)
  /\ windows \in CallWindows
  /\ args \in { [grid_type |-> ra.grid, h3_resolution |-> ra.h3_res,
                 bin_size |-> ra.bin_size, conus_only |-> c, order |-> o] :
                  ra \in { x \in ResolutionArgs : x.h3_res = 6 /\ x.bin_size = 10 },
                  c \in BOOLEAN, o \in RowOrders(Len(df)) }
  /\ argv = args
  /\ columns = {}
  /\ table = << >>
  /\ H3_AVAILABLE = TRUE
  /\ cols = Unset
  /\ features = Unset
  /\ output_data = Unset
  /\ json_bytes = Unset
  /\ out_file = NoFile
  /\ attempts = 0

\* features: the result for the frame; output_data: the result for the same
\* rows in the order args.order
CallAggregateReordered ==
  /\ pc = "call_aggregate_incidents_reordered"
  /\ features' = aggregate_incidents(df, windows, args.grid_type,
                                     args.h3_resolution, args.bin_size,
                                     args.conus_only)
  /\ output_data' =
       [reordered |->
          aggregate_incidents(reordered(df, args.order), windows,
                              args.grid_type, args.h3_resolution, args.bin_size,
                              args.conus_only)]
  /\ pc' = "returned_aggregate_incidents_reordered"
  /\ UNCHANGED << columns, table, argv, args, H3_AVAILABLE, cols, df, windows,
                  json_bytes, out_file, attempts >>

SpecOrder == InitOrder /\ [][CallAggregateReordered]_vars

-----------------------------------------------------------------------------
(* Properties of create_time_windows *)

\* C2: for min_year <= max_year and years_per_window >= 1 the returned list
\* is non-empty, starts at min_year, ends at max_year, has start <= end in
\* every window, is sorted by start, and each window starts one year after
\* the previous one ends; every year of [min_year, max_year] lies in exactly
\* one window and no window holds a year outside the range.
C2_WindowsPartitionRange ==
  (pc = "returned_create_time_windows" /\ args.min_year <= args.max_year) =>
    /\ Len(windows) >= 1
    /\ windows[1].start = args.min_year
    /\ windows[Len(windows)].end = args.max_year
    /\ \A i \in DOMAIN windows : windows[i].start <= windows[i].end
    /\ \A i \in DOMAIN windows : \A j \in DOMAIN windows :
         i < j => windows[i].start < windows[j].start
    /\ \A i \in 1..(Len(windows) - 1) : windows[i + 1].start = windows[i].end + 1
    /\ \A y \in args.min_year..args.max_year :
         Cardinality({ i \in DOMAIN windows :
                         windows[i].start <= y /\ y <= windows[i].end }) = 1
    /\ \A i \in DOMAIN windows :
         args.min_year <= windows[i].start /\ windows[i].end <= args.max_year

\* a call that returned three windows, the last one shorter than the others
C2_Witness ==
  /\ pc = "returned_create_time_windows"
  /\ args.min_year <= args.max_year
  /\ Len(windows) = 3
  /\ windows[3].end - windows[3].start + 1 < args.years_per_window

-----------------------------------------------------------------------------
(* Properties of aggregate_incidents *)

feature_cell(f) == IF "c" \in DOMAIN f THEN f.c ELSE f.bin_id

\* the rows aggregate_incidents works on: all, or those inside the CONUS box
in_conus(r) ==
  /\ lat_e7(r) >= 240000000 /\ lat_e7(r) <= 500000000
  /\ lon_e7(r) >= -1250000000 /\ lon_e7(r) <= -660000000

\* row j of df counts for window w: its year lies in [w.start, w.end]
row_in(j, w) ==
  /\ notna(df[j].parsed_date)
  /\ w.start <= df[j].parsed_date[1]
  /\ df[j].parsed_date[1] <= w.end

\* C1: without the CONUS filter, for every window passed to
\* aggregate_incidents the sum of n over the features carrying that window
\* equals the number of rows whose parsed year lies in the window.
C1_WindowSumEqualsRecordCount ==
  (pc = "returned_aggregate_incidents" /\ ~args.conus_only) =>
    \A i \in DOMAIN windows :
      LET w       == windows[i]
          emitted == SelectSeq(features, LAMBDA f : f.w = << w.start, w.end >>)
      IN  SumSeq([k \in DOMAIN emitted |-> emitted[k].n])
            = Cardinality({ j \in DOMAIN df : row_in(j, w) })

\* a call without the filter in which two rows were merged into one feature
C1_Witness ==
  /\ pc = "returned_aggregate_incidents"
  /\ ~args.conus_only
  /\ \E k \in DOMAIN features : features[k].n = 2

\* C8: every feature has n >= 1, and a window in which no row is left (with
\* the CONUS filter on: no row inside the box) has no feature at all.
C8_NoZeroCountFeature ==
  pc = "returned_aggregate_incidents" =>
    /\ \A k \in DOMAIN features : features[k].n >= 1
    /\ \A i \in DOMAIN windows :
         (\A j \in DOMAIN df :
            ~(row_in(j, windows[i]) /\ (args.conus_only => in_conus(df[j]))))
         => \A k \in DOMAIN features :
              features[k].w # << windows[i].start, windows[i].end >>

\* a filtered call: one window lost its only row to the CONUS filter and
\* has no feature, another window has one
C8_Witness ==
  /\ pc = "returned_aggregate_incidents"
  /\ args.conus_only
  /\ features # << >>
  /\ \E i \in DOMAIN windows :
       /\ \E j \in DOMAIN df : row_in(j, windows[i])
       /\ \A j \in DOMAIN df : row_in(j, windows[i]) => ~in_conus(df[j])
       /\ \A k \in DOMAIN features :
            features[k].w # << windows[i].start, windows[i].end >>

\* C10: no two features share both w and the cell identifier, and every
\* (window, cell) pair that has a row has exactly one feature.
C10_OneFeaturePerWindowCell ==
  pc = "returned_aggregate_incidents" =>
    /\ \A k \in DOMAIN features : \A l \in DOMAIN features :
         k # l => ~(/\ features[k].w = features[l].w
                    /\ feature_cell(features[k]) = feature_cell(features[l]))
    /\ \A i \in DOMAIN windows : \A j \in DOMAIN df :
         (row_in(j, windows[i]) /\ (args.conus_only => in_conus(df[j]))) =>
           Cardinality({ k \in DOMAIN features :
             /\ features[k].w = << windows[i].start, windows[i].end >>
             /\ feature_cell(features[k])
                  = cell_id_of(df[j], args.grid_type, args.h3_resolution,
                               args.bin_size) }) = 1

\* a call that returned two features of one window in different cells
C10_Witness ==
  /\ pc = "returned_aggregate_incidents"
  /\ Len(features) = 2
  /\ features[1].w = features[2].w
  /\ feature_cell(features[1]) # feature_cell(features[2])

-----------------------------------------------------------------------------
(* Properties of the size adjustment in main() *)

\* the active resolution is at its floor (H3 level <= 5) or cap (bin >= 0.2)
bottomed_out(a) ==
  \/ a.grid = "h3" /\ a.h3_res <= 5
  \/ a.grid = "bin" /\ a.bin_size >= 20

\* C3: whenever an output has been written, the serialized size is within
\* the budget, or the active resolution is at its floor or cap.
C3_WrittenWithinBudgetOrBottomedOut ==
  out_file # NoFile =>
    \/ json_bytes.size <= args.max_size
    \/ bottomed_out(args)

\* position of a program point of main() in its control flow
PcRank(p) ==
  CASE p = "detect"        -> 0
    [] p = "filter"        -> 1
    [] p = "grid"          -> 2
    [] p = "windows"       -> 3
    [] p = "aggregating"   -> 4
    [] p = "measuring"     -> 5
    [] p = "coarsening"    -> 6
    [] p = "reaggregating" -> 7
    [] p = "remeasuring"   -> 8
    [] p = "writing"       -> 9
    [] p = "done"          -> 10
    [] p = "error"         -> 10

\* C4: once the first aggregation starts the run reaches Done; every step
\* moves forward in the control flow and main() calls aggregate_incidents at
\* most twice; and after an aggregation at the floor or cap no coarsening or
\* aggregation follows.
C4_RetryLoopTerminates ==
  /\ (pc = "aggregating") ~> (pc = "done")
  /\ [][PcRank(pc') > PcRank(pc)]_vars
  /\ [](attempts <= 2)
  /\ [][ (pc \in { "measuring", "remeasuring", "writing" } /\ bottomed_out(args))
           => (attempts' = attempts
               /\ pc' \notin { "aggregating", "coarsening", "reaggregating" }) ]_vars

\* a run that took the retry, reached the floor or cap with it and is Done
C4_Witness ==
  /\ pc = "done"
  /\ attempts = 2
  /\ bottomed_out(args)
  /\ json_bytes.size > args.max_size

\* C5: a step changes --h3-res or --bin-size only when the measured size
\* exceeds the budget; with grid h3 it lowers the level by exactly 1, not
\* below 5, and with grid bin it sets the bin size to min(0.2, 2 * bin size);
\* nothing else of args changes, and the resolution is never finer than the
\* one on the command line.
C5_CoarseningStep ==
  /\ [][ (args'.h3_res # args.h3_res \/ args'.bin_size # args.bin_size) =>
           /\ json_bytes.size > args.max_size
           /\ IF args.grid = "h3"
              THEN /\ args' = [args EXCEPT !.h3_res = args.h3_res - 1]
                   /\ args'.h3_res >= 5
              ELSE /\ args' = [args EXCEPT !.bin_size = Min(20, 2 * args.bin_size)]
                   /\ args'.bin_size <= 20 ]_vars
  /\ [](args.h3_res <= argv.h3_res /\ args.bin_size >= argv.bin_size)

\* a coarsening step was taken in which the cap cut the doubled bin size
C5_Witness ==
  /\ pc = "reaggregating"
  /\ args.grid = "bin"
  /\ argv.bin_size = 15
  /\ args.bin_size = 20

\* C6: in the written artifact meta.resolution is the resolution the written
\* features were computed at (the configured one after a single attempt, the
\* coarsened one after a retry), and the written features are those of the
\* last aggregation attempt.
C6_MetaResolutionMatchesFeatures ==
  out_file # NoFile =>
    LET meta == out_file.meta
    IN  /\ meta.grid = args.grid
        /\ out_file.features = features
        /\ out_file.features
             = aggregate_incidents(df, windows, meta.grid,
                 IF meta.grid = "h3" THEN meta.resolution ELSE args.h3_res,
                 IF meta.grid = "h3" THEN args.bin_size ELSE meta.resolution,
                 args.conus_only)
        /\ attempts = 1 =>
             meta.resolution
               = (IF meta.grid = "h3" THEN argv.h3_res ELSE argv.bin_size)
        /\ attempts = 2 =>
             meta.resolution
               = (IF meta.grid = "h3" THEN argv.h3_res - 1
                                      ELSE Min(20, 2 * argv.bin_size))

\* an artifact written after a retry whose features differ from those that
\* the configured resolution gives
C6_Witness ==
  /\ out_file # NoFile
  /\ attempts = 2
  /\ out_file.features # << >>
  /\ out_file.features
       # aggregate_incidents(df, windows, args.grid, argv.h3_res,
                             argv.bin_size, args.conus_only)

\* C7: a run with a missing required column, or with no row left by the
\* validity filter, ends in the error state and never writes the output.
C7_FatalErrorsWriteNothing ==
  /\ detect_columns(columns).raised => (out_file = NoFile /\ pc \in { "detect", "error" })
  /\ (pc \in { "grid", "windows", "aggregating", "measuring", "coarsening",
               "reaggregating", "remeasuring", "writing", "done" }
      /\ df = << >>)
       => (out_file = NoFile /\ pc # "done")

\* C9: in the written artifact every feature's w is the (start, end) of
\* exactly one entry of meta.windows.
C9_FeatureWindowInMeta ==
  out_file # NoFile =>
    \A k \in DOMAIN out_file.features :
      Cardinality({ i \in DOMAIN out_file.meta.windows :
                      << out_file.meta.windows[i].start,
                         out_file.meta.windows[i].end >> = out_file.features[k].w })
        = 1

\* an artifact written after a retry with features in two different windows
C9_Witness ==
  /\ out_file # NoFile
  /\ attempts = 2
  /\ Len(out_file.meta.windows) >= 2
  /\ \E k \in DOMAIN out_file.features : \E l \in DOMAIN out_file.features :
       out_file.features[k].w # out_file.features[l].w

-----------------------------------------------------------------------------
(* Properties of the bin grid under coarsening *)

\* C11: after the coarsening step of the bin grid (bin size b replaced by
\* min(0.2, 2b)) the second aggregation of the same rows and windows has no
\* more features than the first one had.
C11_CoarserBinsNoMoreCells ==
  (pc = "remeasuring" /\ args.grid = "bin") =>
    Len(features) <= Len(json_bytes.data.features)

-----------------------------------------------------------------------------
(* The size adjustment at the floor or cap *)

\* C12: when the first serialized size exceeds the budget and the configured
\* resolution is already at the floor (H3 level <= 5) or cap (bin size >=
\* 0.2), the run does not end in the error state and aggregates only once;
\* the resolution stays the configured one and the file that is written is
\* the first attempt's output with its meta.resolution.
C12_OversizeAtFloorWrittenUnchanged ==
  ( /\ pc \in { "coarsening", "reaggregating", "remeasuring", "writing", "done" }
    /\ bottomed_out([args EXCEPT !.h3_res = argv.h3_res,
                                 !.bin_size = argv.bin_size])
    /\ json_bytes.size > args.max_size )
  => /\ pc \in { "writing", "done" }
     /\ attempts = 1
     /\ args.h3_res = argv.h3_res /\ args.bin_size = argv.bin_size
     /\ output_data.features = features
     /\ output_data.meta.resolution = active_resolution(args)
     /\ json_bytes.data = output_data
     /\ pc = "done" => out_file = output_data

\* an oversized first attempt at the cap of the bin grid, written as it is
C12_Witness ==
  /\ pc = "done"
  /\ attempts = 1
  /\ args.grid = "bin" /\ args.bin_size = 20
  /\ json_bytes.size > args.max_size
  /\ out_file.features # << >>
  /\ out_file.meta.resolution = 20

-----------------------------------------------------------------------------
(* The validity filter of main() *)

\* C13: every row counted in an emitted feature (a row of the filtered frame
\* whose year lies in the feature's window and whose cell is the feature's
\* cell) has a latitude in [-90, 90], a longitude in [-180, 180] and a parsed
\* date, and the validity filter never ends the run in the error state.
C13_ContributingRecordsValid ==
  pc \in { "measuring", "coarsening", "remeasuring", "writing", "done" } =>
    \A k \in DOMAIN features : \A j \in DOMAIN df :
      ( /\ notna(df[j].parsed_date)
        /\ features[k].w[1] <= df[j].parsed_date[1]
        /\ df[j].parsed_date[1] <= features[k].w[2]
        /\ feature_cell(features[k])
             = cell_id_of(df[j], args.grid, args.h3_res, args.bin_size) )
      => /\ df[j].lat >= -9000 /\ df[j].lat <= 9000
         /\ df[j].lon >= -18000 /\ df[j].lon <= 18000

-----------------------------------------------------------------------------
(* Further properties of create_time_windows *)

\* C14: a call of create_time_windows with min_year > max_year raises an
\* error: it does not return a window list.
C14_InvertedRangeRaises ==
  args.min_year > args.max_year => pc # "returned_create_time_windows"

\* C15: for min_year <= max_year every window but the last spans exactly
\* years_per_window years; the last spans between 1 and years_per_window
\* years and is shorter than years_per_window only when the number of years
\* of the range is not a multiple of years_per_window.
C15_WindowSpans ==
  (pc = "returned_create_time_windows" /\ args.min_year <= args.max_year) =>
    LET span(i) == windows[i].end - windows[i].start + 1
        last    == Len(windows)
    IN  /\ last >= 1
        /\ \A i \in 1..(last - 1) : span(i) = args.years_per_window
        /\ span(last) >= 1 /\ span(last) <= args.years_per_window
        /\ span(last) < args.years_per_window =>
             (args.max_year - args.min_year + 1) % args.years_per_window # 0

\* a call that returned two full windows and a shorter last one
C15_Witness ==
  /\ pc = "returned_create_time_windows"
  /\ args.years_per_window = 2
  /\ Len(windows) = 3
  /\ windows[1].end - windows[1].start + 1 = 2
  /\ windows[2].end - windows[2].start + 1 = 2
  /\ windows[3].end = windows[3].start

\* C16: for min_year <= max_year the call returns, with exactly
\* ceil((max_year - min_year + 1) / years_per_window) windows; for
\* min_year = max_year it returns the single window [min_year, min_year].
C16_WindowCount ==
  /\ (pc = "call_create_time_windows" /\ args.min_year <= args.max_year)
       ~> (pc = "returned_create_time_windows")
  /\ []( (pc = "returned_create_time_windows" /\ args.min_year <= args.max_year) =>
           LET years == args.max_year - args.min_year + 1
               k     == args.years_per_window
           IN  /\ Len(windows) = (years + k - 1) \div k
               /\ args.min_year = args.max_year =>
                    windows = << [start |-> args.min_year, end |-> args.min_year] >> )

\* a call with min_year = max_year and a window length of three years that
\* returned one single-year window
C16_Witness ==
  /\ pc = "returned_create_time_windows"
  /\ args.min_year = args.max_year
  /\ args.years_per_window = 3
  /\ windows = << [start |-> args.min_year, end |-> args.min_year] >>

-----------------------------------------------------------------------------
(* Properties of detect_columns *)

\* alias a is the first entry of candidates that is among the names cs
earliest_alias(a, candidates, cs) ==
  \E i \in DOMAIN candidates :
    /\ candidates[i] = a
    /\ a \in cs
    /\ \A j \in 1..(i - 1) : candidates[j] \notin cs

\* C17: when detect_columns returns, each returned name is the earliest alias
\* of its field's list that is present in the table (lat before Latitude,
\* date before year), and every reordering of the same columns resolves to
\* the same result.
C17_FirstMatchWins ==
  pc = "returned_detect_columns" =>
    /\ ~cols.raised =>
         /\ earliest_alias(cols.lat_col, lat_candidates, Range(columns))
         /\ earliest_alias(cols.lon_col, lon_candidates, Range(columns))
         /\ earliest_alias(cols.date_col, date_candidates, Range(columns))
         /\ { "lat", "Latitude" } \subseteq Range(columns) => cols.lat_col = "lat"
         /\ { "date", "year" } \subseteq Range(columns) => cols.date_col = "date"
    /\ \A h \in Headers :
         Range(h) = Range(columns) => detect_columns(Range(h)) = cols

\* a table that lists Latitude before lat resolved to lat
C17_Witness ==
  /\ pc = "returned_detect_columns"
  /\ columns = << "Latitude", "lat", "Longitude", "year" >>
  /\ ~cols.raised
  /\ cols.lat_col = "lat"

\* the field's aliases are all absent from the names cs
no_alias(candidates, cs) == \A i \in DOMAIN candidates : candidates[i] \notin cs

\* C18: detect_columns raises exactly when the latitude, the longitude or the
\* date field has no alias among the columns; the error names a field that
\* has none and lists all of that field's aliases; when it returns, each of
\* the three names is a column of the table.
C18_RaisesIffFieldMissing ==
  pc = "returned_detect_columns" =>
    LET cs == Range(columns)
    IN  /\ cols.raised <=> \/ no_alias(lat_candidates, cs)
                           \/ no_alias(lon_candidates, cs)
                           \/ no_alias(date_candidates, cs)
        /\ cols.raised =>
             \/ /\ cols.field = "latitude" /\ no_alias(lat_candidates, cs)
                /\ cols.expected = lat_candidates
             \/ /\ cols.field = "longitude" /\ no_alias(lon_candidates, cs)
                /\ cols.expected = lon_candidates
             \/ /\ cols.field = "date" /\ no_alias(date_candidates, cs)
                /\ cols.expected = date_candidates
        /\ ~cols.raised =>
             /\ cols.lat_col \in cs
             /\ cols.lon_col \in cs
             /\ cols.date_col \in cs

\* a table with coordinates but neither date nor year: the error names the
\* date field
C18_Witness ==
  /\ pc = "returned_detect_columns"
  /\ Range(columns) = { "lat", "lon", "state" }
  /\ cols.raised
  /\ cols.field = "date"
  /\ cols.expected = date_candidates

-----------------------------------------------------------------------------
(* Properties of parse_date_column *)

\* C19: for a bare-year column the returned series has one entry per input
\* row, and every entry is a date whose year is the row's year and whose
\* month is 7, whatever the year is.
C19_BareYearToJulyFirst ==
  pc = "returned_parse_date_column" =>
    /\ Len(df) = Len(table)
    /\ \A i \in DOMAIN table :
         /\ notna(df[i])
         /\ df[i][1] = table[i].date[1]
         /\ df[i][2] = 7

-----------------------------------------------------------------------------
(* The CONUS filter of aggregate_incidents *)

\* C20: a call with conus_only on returns no more features than the same
\* call with conus_only off; each of its features has a feature of the same
\* window and cell in the unfiltered result with a count at least as large;
\* and its counts are those of the rows with lat in [24, 50] and lon in
\* [-125, -66], the edges included.
C20_ConusFilterReduces ==
  (pc = "returned_aggregate_incidents" /\ args.conus_only) =>
    LET unfiltered == aggregate_incidents(df, windows, args.grid_type,
                                          args.h3_resolution, args.bin_size, FALSE)
    IN  /\ Len(features) <= Len(unfiltered)
        /\ \A k \in DOMAIN features : \E l \in DOMAIN unfiltered :
             /\ unfiltered[l].w = features[k].w
             /\ feature_cell(unfiltered[l]) = feature_cell(features[k])
             /\ unfiltered[l].n >= features[k].n
        /\ \A k \in DOMAIN features :
             features[k].n =
               Cardinality({ j \in DOMAIN df :
                 /\ notna(df[j].parsed_date)
                 /\ features[k].w[1] <= df[j].parsed_date[1]
                 /\ df[j].parsed_date[1] <= features[k].w[2]
                 /\ cell_id_of(df[j], args.grid_type, args.h3_resolution,
                               args.bin_size) = feature_cell(features[k])
                 /\ in_conus(df[j]) })

\* a filtered call that kept the row on the corner of the box (24, -66) and
\* dropped a row outside it, so that it has fewer features than the
\* unfiltered call
C20_Witness ==
  /\ pc = "returned_aggregate_incidents"
  /\ args.conus_only
  /\ Len(features) = 1
  /\ features[1].lat = 24000000 /\ features[1].lon = -66000000
  /\ Len(aggregate_incidents(df, windows, args.grid_type, args.h3_resolution,
                             args.bin_size, FALSE)) = 2

-----------------------------------------------------------------------------
(* The fallback to the bin grid *)

\* C21: when --grid h3 is asked for and h3 could not be imported, the run
\* does not end in the error state; from the window step on the grid type is
\* bin, every aggregation gives bin features, a coarsening step changes the
\* bin size and not the H3 level, and the written meta has grid "bin" and the
\* bin size as its resolution.
C21_H3FallbackToBin ==
  (argv.grid = "h3" /\ ~H3_AVAILABLE) =>
    /\ pc # "error"
    /\ pc \notin { "detect", "filter", "grid" } => args.grid = "bin"
    /\ args.h3_res = argv.h3_res
    /\ \A k \in DOMAIN features : DOMAIN features[k] = { "w", "lat", "lon", "n", "bin_id" }
    /\ output_data # Unset =>
         /\ output_data.meta.grid = "bin"
         /\ output_data.meta.resolution \in { argv.bin_size, args.bin_size }
    /\ out_file # NoFile =>
         /\ out_file.meta.grid = "bin"
         /\ out_file.meta.resolution = args.bin_size
         /\ \A k \in DOMAIN out_file.features : "bin_id" \in DOMAIN out_file.features[k]

\* a run that asked for h3 without the library, coarsened the bin size once
\* and wrote bin features
C21_Witness ==
  /\ pc = "done"
  /\ argv.grid = "h3" /\ ~H3_AVAILABLE
  /\ attempts = 2
  /\ out_file.meta.grid = "bin"
  /\ out_file.meta.resolution = 20
  /\ out_file.features # << >>

-----------------------------------------------------------------------------
(* Shape and centroid of the features *)

\* C22: every feature has the keys w, lat, lon and n and exactly one cell
\* key, c with the h3 grid and bin_id with the bin grid; w is a list of two
\* years and n, lat and lon are numbers.
C22_FeatureKeys ==
  pc = "returned_aggregate_incidents" =>
    \A k \in DOMAIN features :
      /\ DOMAIN features[k] =
           { "w", "lat", "lon", "n" }
             \cup (IF args.grid_type = "h3" THEN { "c" } ELSE { "bin_id" })
      /\ Len(features[k].w) = 2
      /\ features[k].w[1] \in Int /\ features[k].w[2] \in Int
      /\ features[k].n \in Int
      /\ features[k].lat \in Int /\ features[k].lon \in Int

\* a bin-grid call that returned a feature with bin_id and no c
C22_Witness ==
  /\ pc = "returned_aggregate_incidents"
  /\ args.grid_type = "bin"
  /\ \E k \in DOMAIN features :
       "bin_id" \in DOMAIN features[k] /\ "c" \notin DOMAIN features[k]

\* the rows counted in feature f: the rows of its window that map to its
\* cell (inside the CONUS box when the filter is on)
counted_rows(f) ==
  { j \in DOMAIN df :
      /\ notna(df[j].parsed_date)
      /\ f.w[1] <= df[j].parsed_date[1]
      /\ df[j].parsed_date[1] <= f.w[2]
      /\ cell_id_of(df[j], args.grid_type, args.h3_resolution, args.bin_size)
           = feature_cell(f)
      /\ args.conus_only => in_conus(df[j]) }

\* the sum of c(df[j]) over the rows j of a set
RECURSIVE SumOver(_, _)
SumOver(c(_), rows) ==
  IF rows = {} THEN 0
  ELSE LET j == CHOOSE x \in rows : TRUE
       IN  c(df[j]) + SumOver(c, rows \ { j })

\* C24 as stated: each feature's lat and lon are the arithmetic mean of the
\* latitudes and longitudes of the rows counted in its n, and lie between the
\* smallest and the largest coordinate of those rows.  (Coordinates in units
\* of 1e-7 degree: ten times the feature's value in millionths.)
C24_CentroidIsExactMean ==
  pc = "returned_aggregate_incidents" =>
    \A k \in DOMAIN features :
      LET counted == counted_rows(features[k])
          n == Cardinality(counted)
      IN  /\ features[k].n = n
          /\ features[k].lat * 10 * n = SumOver(lat_e7, counted)
          /\ features[k].lon * 10 * n = SumOver(lon_e7, counted)
          /\ \E j \in counted : lat_e7(df[j]) <= features[k].lat * 10
          /\ \E j \in counted : lat_e7(df[j]) >= features[k].lat * 10
          /\ \E j \in counted : lon_e7(df[j]) <= features[k].lon * 10
          /\ \E j \in counted : lon_e7(df[j]) >= features[k].lon * 10

\* C24, amended: each feature's n is the number of rows of its window that
\* map to its cell; its lat and lon are the millionth of a degree nearest to
\* the arithmetic mean of the latitudes and longitudes of those rows (at most
\* half a millionth away from it), and lie between the smallest and the
\* largest coordinate of those rows rounded to 6 decimals.
C24_CentroidIsRoundedMean ==
  pc = "returned_aggregate_incidents" =>
    \A k \in DOMAIN features :
      LET counted == counted_rows(features[k])
          n == Cardinality(counted)
      IN  /\ features[k].n = n
          /\ n >= 1
          /\ 2 * Abs(features[k].lat * 10 * n - SumOver(lat_e7, counted)) <= 10 * n
          /\ 2 * Abs(features[k].lon * 10 * n - SumOver(lon_e7, counted)) <= 10 * n
          /\ \E j \in counted : RoundDiv(lat_e7(df[j]), 10) <= features[k].lat
          /\ \E j \in counted : RoundDiv(lat_e7(df[j]), 10) >= features[k].lat
          /\ \E j \in counted : RoundDiv(lon_e7(df[j]), 10) <= features[k].lon
          /\ \E j \in counted : RoundDiv(lon_e7(df[j]), 10) >= features[k].lon

\* a feature of two different points with seven decimals: the rounded mean
\* 42.360083, -71.05888 is not the mean 42.36008255, -71.0588804 and lies
\* north and east of both points
C24_Witness ==
  /\ pc = "returned_aggregate_incidents"
  /\ \E k \in DOMAIN features :
       /\ features[k].n = 2
       /\ features[k].lat = 42360083
       /\ features[k].lon = -71058880
       /\ \A j \in counted_rows(features[k]) :
            /\ lat_e7(df[j]) < features[k].lat * 10
            /\ lon_e7(df[j]) < features[k].lon * 10

-----------------------------------------------------------------------------
(* Properties of get_bin_cell *)

\* C23: for every point, negative coordinates included, the returned key is
\* the one built from floor(lat / bin_size) * bin_size and
\* floor(lon / bin_size) * bin_size, the lower edges of the point's bin.
C23_BinKeyIsFloorEdge ==
  pc = "returned_get_bin_cell" =>
    \A i \in DOMAIN df :
      features[i].bin_id
        = Format1f((df[i].lat \div args.bin_size) * args.bin_size) \o "_"
            \o Format1f((df[i].lon \div args.bin_size) * args.bin_size)

\* C30: two points that get the same bin_id lie in the same bin_size x
\* bin_size bin: their latitudes and their longitudes differ by less than
\* bin_size.
C30_SameKeySameBin ==
  (pc = "returned_get_bin_cell" /\ features[1].bin_id = features[2].bin_id) =>
    /\ df[1].lat \div args.bin_size = df[2].lat \div args.bin_size
    /\ df[1].lon \div args.bin_size = df[2].lon \div args.bin_size
    /\ Abs(df[1].lat - df[2].lat) < args.bin_size
    /\ Abs(df[1].lon - df[2].lon) < args.bin_size

-----------------------------------------------------------------------------
(* Aggregation of parts of the input *)

\* the (window, cell) key of a feature
feature_key(f) == << f.w, feature_cell(f) >>

\* C25 as stated: the concatenated results of the calls on two window lists,
\* and of the calls on two disjoint row shards, hold the same set of
\* aggregates (keys, counts and centroids) as the result of one call.
C25_PartsConcatenateToWhole ==
  pc = "returned_aggregate_incidents_on_parts" =>
    /\ Range(output_data.by_windows) = Range(features)
    /\ Range(output_data.by_rows) = Range(features)

\* C25 as the code has it: the results for two window lists concatenate to
\* the result of one call.  The results for two row shards have the same
\* (window, cell) keys as the one call and, per key, counts that add up to
\* its count; they are the same set of aggregates when no key occurs in both
\* shards, otherwise such a key occurs twice with partial counts.
C25_WindowPartsConcatenate ==
  pc = "returned_aggregate_incidents_on_parts" =>
    /\ output_data.by_windows = features
    /\ { feature_key(f) : f \in Range(output_data.by_rows) }
         = { feature_key(f) : f \in Range(features) }
    /\ \A k \in DOMAIN features :
         LET parts == SelectSeq(output_data.by_rows,
                        LAMBDA f : feature_key(f) = feature_key(features[k]))
         IN  /\ features[k].n = SumSeq([i \in DOMAIN parts |-> parts[i].n])
             /\ Len(parts) = 1 => parts[1] = features[k]
             /\ Len(parts) \in { 1, 2 }

\* two rows of one window and one cell in different shards: the cell has two
\* features with count 1 in the concatenation and one with count 2 in the
\* result of the one call
C25_Witness ==
  /\ pc = "returned_aggregate_incidents_on_parts"
  /\ Len(features) = 1 /\ features[1].n = 2
  /\ Len(output_data.by_rows) = 2
  /\ output_data.by_rows[1].n = 1 /\ output_data.by_rows[2].n = 1
  /\ feature_key(output_data.by_rows[1]) = feature_key(output_data.by_rows[2])
  /\ output_data.by_windows = features

-----------------------------------------------------------------------------
(* What a coarsening retry leaves alone *)

\* C26: from the first aggregation to the end of the second one, no step
\* changes the filtered frame, the loaded table and its columns, the chosen
\* columns, the window list, the grid type, the CONUS flag, the window
\* length, the budget or the parameter of the grid that is not in use; the
\* calls of aggregate_incidents leave the frame they are given as it was.
C26_RetryChangesOnlyResolution ==
  [][ (pc \in { "aggregating", "measuring", "coarsening", "reaggregating" }) =>
        ( /\ df' = df
          /\ windows' = windows
          /\ table' = table
          /\ columns' = columns
          /\ cols' = cols
          /\ args'.grid = args.grid
          /\ args'.conus_only = args.conus_only
          /\ args'.years_per_window = args.years_per_window
          /\ args'.max_size = args.max_size
          /\ (args.grid = "h3" => args'.bin_size = args.bin_size)
          /\ (args.grid = "bin" => args'.h3_res = args.h3_res) ) ]_vars

\* after a retry with the CONUS filter on, the frame still holds a row from
\* outside the box and only the bin size differs from the command line
C26_Witness ==
  /\ pc = "remeasuring"
  /\ attempts = 2
  /\ args.conus_only
  /\ \E j \in DOMAIN df : ~in_conus(df[j])
  /\ args.grid = "bin" /\ argv.grid = "bin"
  /\ args.bin_size # argv.bin_size
  /\ args = [argv EXCEPT !.bin_size = args.bin_size]

-----------------------------------------------------------------------------
(* Row order *)

\* C27: aggregate_incidents returns the same set of features for a frame and
\* for the same rows in any other order.
C27_RowOrderIrrelevant ==
  pc = "returned_aggregate_incidents_reordered" =>
    Range(output_data.reordered) = Range(features)

\* two different rows of one window and one cell, swapped
C27_Witness ==
  /\ pc = "returned_aggregate_incidents_reordered"
  /\ Len(df) = 2
  /\ df[1].lat # df[2].lat
  /\ args.order = << 2, 1 >>
  /\ Len(features) = 1
  /\ features[1].n = 2
  /\ features[1].lat # df[1].lat * 10000

-----------------------------------------------------------------------------
(* Windows and the rows that are aggregated *)

\* C28: in a written artifact for a non-empty filtered frame, meta.windows
\* starts at the smallest and ends at the largest year of the filtered frame,
\* and its first and its last window each hold the year of a row that is
\* counted in a feature of that window.
C28_EndWindowsHoldAggregatedRows ==
  (out_file # NoFile /\ df # << >>) =>
    /\ out_file.meta.windows # << >>
    /\ out_file.meta.windows[1].start = year_min(df)[1]
    /\ out_file.meta.windows[Len(out_file.meta.windows)].end = year_max(df)[1]
    /\ \A w \in { out_file.meta.windows[1],
                  out_file.meta.windows[Len(out_file.meta.windows)] } :
         /\ \E j \in DOMAIN df :
              row_in(j, w) /\ (args.conus_only => in_conus(df[j]))
         /\ \E k \in DOMAIN out_file.features :
              out_file.features[k].w = << w.start, w.end >>

-----------------------------------------------------------------------------
(* Conservation of the record count *)

\* C29: in a written artifact of a run without the CONUS filter, the sum of
\* n over all features equals the number of rows of the filtered frame, after
\* one aggregation and after two.
C29_CountsSumToValidRows ==
  (out_file # NoFile /\ ~args.conus_only) =>
    SumSeq([ k \in DOMAIN out_file.features |-> out_file.features[k].n ])
      = Len(df)

\* an artifact written after a retry, without the CONUS filter, for two valid
\* rows of different windows
C29_Witness ==
  /\ out_file # NoFile
  /\ ~args.conus_only
  /\ attempts = 2
  /\ Len(df) = 2
  /\ Len(out_file.features) = 2
  /\ out_file.features[1].w # out_file.features[2].w

====
